---- MODULE Spec2Model ----
(***************************************************************************)
(* The bot of src/bot/bot.py: slash-command and event handlers that read   *)
(* the forum tags of the configured channel from the guild directory,      *)
(* read a user's subscriptions from the subscription store, and answer     *)
(* with a text message or a selection menu.                                *)
(*                                                                         *)
(* Every handler is a coroutine of a single-threaded event loop: its code  *)
(* runs without interruption up to an await, so a handler is one action    *)
(* up to its await and one action for the completion of what it awaits.    *)
(***************************************************************************)
EXTENDS Integers, Sequences, FiniteSets, TLC

VARIABLES guilds, subscriptions, store_tags, tree_syncs, tasks

vars == <<guilds, subscriptions, store_tags, tree_syncs, tasks>>

(* ------------------------------ bounds --------------------------------- *)

\* Number of distinct tag names.
NumNames == 3
\* Number of invocations dispatched in one behaviour of Spec.
MaxInv == 2

Users == {"u1", "u2"}

NameOf(n) == "tag" \o ToString(n)

Names == {NameOf(n) : n \in 1..NumNames}

(* --------------------------- configuration ----------------------------- *)

server_name == "server"

channel_name == "forum"

(* ------------------------------ values --------------------------------- *)

None == [isNone |-> TRUE]

Tag(name) == [name |-> name]

Tags == {Tag(n) : n \in Names}

Range(s) == {s[k] : k \in 1..Len(s)}

NamesOf(s) == {s[k].name : k \in 1..Len(s)}

\* Tag lists of a forum channel: tag names are unique within the channel.
TagLists ==
    {s \in UNION {[1..k -> Tags] : k \in 0..NumNames} :
        \A a, b \in 1..Len(s) : a # b => s[a].name # s[b].name}

Return(v) == [ok |-> TRUE, value |-> v, error |-> ""]

Raise(e) == [ok |-> FALSE, value |-> <<>>, error |-> e]

(* ----------------------------- directory ------------------------------- *)

Channel(name, available_tags) == [name |-> name, available_tags |-> available_tags]

Guild(name, channels) == [name |-> name, channels |-> channels]

\* The client is in no guild of the configured name.
NoGuild == <<Guild("elsewhere", <<Channel(channel_name, <<>>)>>)>>

\* The configured guild has no channel of the configured name.
NoChannel == <<Guild(server_name, <<Channel("general", <<>>)>>)>>

Found(T) ==
    <<Guild("elsewhere", <<Channel(channel_name, <<>>)>>),
      Guild(server_name, <<Channel("general", <<>>), Channel(channel_name, T)>>)>>

Directories == {NoGuild, NoChannel} \cup {Found(T) : T \in TagLists}

\* discord.utils.get(iterable, name=...): the first element of that name, or None.
Get(iterable, name) ==
    IF \E k \in 1..Len(iterable) : iterable[k].name = name
    THEN iterable[CHOOSE k \in 1..Len(iterable) :
                     /\ iterable[k].name = name
                     /\ \A j \in 1..(k - 1) : iterable[j].name # name]
    ELSE None

\* An attribute read on None raises AttributeError.
get_forum_tags(client_guilds, guild_name, chan_name) ==
    LET guild == Get(client_guilds, guild_name) IN
    IF guild = None THEN Raise("AttributeError")
    ELSE LET channel == Get(guild.channels, chan_name) IN
         IF channel = None THEN Raise("AttributeError")
         ELSE Return(channel.available_tags)

get_thread_tags(ctx, chan_name) ==
    IF ctx.parent = chan_name THEN ctx.applied_tags ELSE None

RECURSIVE Join(_, _)
Join(sep, strs) ==
    IF strs = <<>> THEN ""
    ELSE IF Len(strs) = 1 THEN strs[1]
    ELSE strs[1] \o sep \o Join(sep, Tail(strs))

create_message_string(iter_tags) ==
    Join(", ", [k \in 1..Len(iter_tags) |-> iter_tags[k].name])

\* The names bound in the module's namespace when a handler runs.
module_names ==
    {"os", "Intents", "app_commands", "Interaction", "Message", "Embed",
     "Select", "View", "commands", "get", "load_dotenv", "MenuView",
     "sync_all_tags", "fetch_subscriptions_by_user_id", "server_name",
     "channel_name", "token", "intents", "bot", "get_thread_tags",
     "get_forum_tags", "create_message_string", "on_ready", "list_tags",
     "mention_me", "subscribe", "unsubscribe", "on_thread_create", "sync"}

(* -------------------------- subscription store ------------------------- *)

\* The store answers with the user's set of tag names, or fails.
fetch_subscriptions_by_user_id(store, user_id, store_up) ==
    IF store_up THEN Return(store[user_id]) ELSE Raise("StoreError")

FetchCall(user_id, ok) == [op |-> "fetch_subscriptions_by_user_id", arg |-> <<user_id>>, ok |-> ok]

SyncCall(forum_tags, ok) == [op |-> "sync_all_tags", arg |-> forum_tags, ok |-> ok]

(* ------------------------------ responses ------------------------------ *)

NoResponse ==
    [kind |-> "none", content |-> "", subscribe |-> FALSE, options |-> <<>>, ephemeral |-> FALSE]

Text(content) ==
    [kind |-> "text", content |-> content, subscribe |-> FALSE, options |-> <<>>, ephemeral |-> FALSE]

\* MenuView(flag) with add_menu(options), sent with ephemeral=True.
Menu(flag, options) ==
    [kind |-> "menu", content |-> "", subscribe |-> flag, options |-> options, ephemeral |-> TRUE]

(* -------------------------------- tasks -------------------------------- *)

Commands == {"list_tags", "subscribe", "unsubscribe", "sync", "on_thread_create"}

NoThread == [parent |-> "", owner |-> "", applied_tags |-> <<>>]

Threads ==
    {[parent |-> p, owner |-> "u1", applied_tags |-> a] :
        p \in {channel_name, "general"},
        a \in {<<>>, <<Tag(NameOf(2)), Tag(NameOf(1))>>}}

NewTask(cmd, user, ctx) ==
    [cmd |-> cmd, user |-> user, ctx |-> ctx, pc |-> "run",
     all_tags |-> <<>>, subscribed_tags |-> {}, forum_tags |-> <<>>,
     store_calls |-> <<>>, pending |-> NoResponse, response |-> NoResponse,
     sent |-> 0, error |-> "", selected |-> FALSE,
     seen_guilds |-> <<>>, seen_subscriptions |-> {}]

Failed(task, error) == [task EXCEPT !.pc = "failed", !.error = error]

(* ------------------------------ handlers ------------------------------- *)

list_tags_response(forum_tags) ==
    Text("The available tags are " \o create_message_string(forum_tags))

list_tags(task, client_guilds) ==
    LET lookup == get_forum_tags(client_guilds, server_name, channel_name) IN
    IF ~lookup.ok THEN Failed(task, lookup.error)
    ELSE [task EXCEPT !.all_tags = lookup.value,
                      !.forum_tags = lookup.value,
                      !.pending = list_tags_response(lookup.value),
                      !.pc = "send"]

Reverse(s) == [k \in 1..Len(s) |-> s[Len(s) + 1 - k]]

\* The filter with the test dropped: every tag is offered.
subscribe_filter_unfiltered(forum_tags, subscribed_tags) == forum_tags

\* The filter building its list back to front.
subscribe_filter_reversed(forum_tags, subscribed_tags) ==
    Reverse(SelectSeq(forum_tags, LAMBDA tag : ~(tag.name \in subscribed_tags)))

\* [tag for tag in forum_tags if not tag.name in subscribed_tags]
subscribe_filter(forum_tags, subscribed_tags) ==
    SelectSeq(forum_tags, LAMBDA tag : ~(tag.name \in subscribed_tags))

\* The filter with the test of subscribe left in.
unsubscribe_filter_negated(forum_tags, subscribed_tags) ==
    SelectSeq(forum_tags, LAMBDA tag : ~(tag.name \in subscribed_tags))

\* [tag for tag in forum_tags if tag.name in subscribed_tags]
unsubscribe_filter(forum_tags, subscribed_tags) ==
    SelectSeq(forum_tags, LAMBDA tag : tag.name \in subscribed_tags)

\* The handler without its test for the empty list.
subscribe_response_always_menu(forum_tags) == Menu(TRUE, forum_tags)

subscribe_response(forum_tags) ==
    IF forum_tags = <<>>
    THEN Text("You are currently subscribed to all tags!")
    ELSE Menu(TRUE, forum_tags)

unsubscribe_response(forum_tags) ==
    IF forum_tags = <<>>
    THEN Text("Not currently subscribed to any tags!")
    ELSE Menu(FALSE, forum_tags)

\* The handler catching the store's error and going on with no subscriptions.
subscribe_swallowing(task, client_guilds, store, store_up) ==
    LET lookup == get_forum_tags(client_guilds, server_name, channel_name) IN
    IF ~lookup.ok THEN Failed(task, lookup.error)
    ELSE LET fetched == fetch_subscriptions_by_user_id(store, task.user, store_up)
             subscribed_tags == IF fetched.ok THEN fetched.value ELSE {}
             forum_tags == SelectSeq(lookup.value, LAMBDA tag : ~(tag.name \in subscribed_tags))
         IN [task EXCEPT !.all_tags = lookup.value,
                         !.store_calls = Append(@, FetchCall(task.user, fetched.ok)),
                         !.subscribed_tags = subscribed_tags,
                         !.forum_tags = forum_tags,
                         !.pending = IF forum_tags = <<>>
                                     THEN Text("You are currently subscribed to all tags!")
                                     ELSE Menu(TRUE, forum_tags),
                         !.pc = "send"]

subscribe(task, client_guilds, store, store_up) ==
    LET lookup == get_forum_tags(client_guilds, server_name, channel_name) IN
    IF ~lookup.ok THEN Failed(task, lookup.error)
    ELSE LET fetched == fetch_subscriptions_by_user_id(store, task.user, store_up)
             called == [task EXCEPT !.all_tags = lookup.value,
                                    !.store_calls = Append(@, FetchCall(task.user, fetched.ok))]
         IN IF ~fetched.ok THEN Failed(called, fetched.error)
            ELSE LET forum_tags == subscribe_filter(lookup.value, fetched.value) IN
                 [called EXCEPT !.subscribed_tags = fetched.value,
                                !.forum_tags = forum_tags,
                                !.pending = subscribe_response(forum_tags),
                                !.pc = "send"]

unsubscribe(task, client_guilds, store, store_up) ==
    LET lookup == get_forum_tags(client_guilds, server_name, channel_name) IN
    IF ~lookup.ok THEN Failed(task, lookup.error)
    ELSE LET fetched == fetch_subscriptions_by_user_id(store, task.user, store_up)
             called == [task EXCEPT !.all_tags = lookup.value,
                                    !.store_calls = Append(@, FetchCall(task.user, fetched.ok))]
         IN IF ~fetched.ok THEN Failed(called, fetched.error)
            ELSE LET forum_tags == unsubscribe_filter(lookup.value, fetched.value) IN
                 [called EXCEPT !.subscribed_tags = fetched.value,
                                !.forum_tags = forum_tags,
                                !.pending = unsubscribe_response(forum_tags),
                                !.pc = "send"]

\* The handler calls create_mention_string, a name the module never binds.
\* The call raises NameError, so the send after it is never reached.
on_thread_create(task) ==
    LET channel_tags == get_thread_tags(task.ctx, channel_name) IN
    IF "create_mention_string" \notin module_names
    THEN Failed(task, "NameError")
    ELSE [task EXCEPT !.pending = Text("The applied tags are: "), !.pc = "send"]

\* The handler going on to the refresh whatever the store call did.
sync_ignoring_failure(task, client_guilds, store_up) ==
    LET lookup == get_forum_tags(client_guilds, server_name, channel_name) IN
    IF ~lookup.ok THEN Failed(task, lookup.error)
    ELSE [task EXCEPT !.all_tags = lookup.value,
                      !.forum_tags = lookup.value,
                      !.store_calls = Append(@, SyncCall(lookup.value, store_up)),
                      !.pc = "tree_sync"]

\* Up to the await: the lookup and the store call; the refresh is what is awaited.
sync(task, client_guilds, store_up) ==
    LET lookup == get_forum_tags(client_guilds, server_name, channel_name) IN
    IF ~lookup.ok THEN Failed(task, lookup.error)
    ELSE LET called == [task EXCEPT !.all_tags = lookup.value,
                                    !.forum_tags = lookup.value,
                                    !.store_calls = Append(@, SyncCall(lookup.value, store_up))]
         IN IF ~store_up THEN Failed(called, "StoreError")
            ELSE [called EXCEPT !.pc = "tree_sync"]

\* The view kept in a module-level name, which the latest invocation overwrites.
response_of_shared(all_tasks, i) == all_tasks[Len(all_tasks)].pending

\* What a resumed send_message delivers: the arguments its own coroutine built.
response_of(all_tasks, i) == all_tasks[i].pending

(* ------------------------------- actions ------------------------------- *)

\* What the directory and the store hold for the invoker when the handler runs.
Invoke(cmd, user, ctx) ==
    [NewTask(cmd, user, ctx) EXCEPT !.seen_guilds = guilds,
                                    !.seen_subscriptions = subscriptions[user]]

\* A handler runs from its dispatch to its await without interruption.
list_tags_run(user) ==
    /\ Len(tasks) < MaxInv
    /\ tasks' = Append(tasks, list_tags(Invoke("list_tags", user, NoThread), guilds))
    /\ UNCHANGED <<guilds, subscriptions, store_tags, tree_syncs>>

\* The handler subscribing the user to what it offers instead of leaving that
\* to the menu's callback.
subscribe_run_writing(user) ==
    /\ Len(tasks) < MaxInv
    /\ \E store_up \in BOOLEAN :
          LET after == subscribe(Invoke("subscribe", user, NoThread),
                                 guilds, subscriptions, store_up)
          IN /\ tasks' = Append(tasks, after)
             /\ subscriptions' =
                   [subscriptions EXCEPT ![user] = @ \cup NamesOf(after.forum_tags)]
    /\ UNCHANGED <<guilds, store_tags, tree_syncs>>

subscribe_run(user) ==
    /\ Len(tasks) < MaxInv
    /\ \E store_up \in BOOLEAN :
          tasks' = Append(tasks, subscribe(Invoke("subscribe", user, NoThread),
                                           guilds, subscriptions, store_up))
    /\ UNCHANGED <<guilds, subscriptions, store_tags, tree_syncs>>

unsubscribe_run(user) ==
    /\ Len(tasks) < MaxInv
    /\ \E store_up \in BOOLEAN :
          tasks' = Append(tasks, unsubscribe(Invoke("unsubscribe", user, NoThread),
                                             guilds, subscriptions, store_up))
    /\ UNCHANGED <<guilds, subscriptions, store_tags, tree_syncs>>

on_thread_create_run(ctx) ==
    /\ Len(tasks) < MaxInv
    /\ tasks' = Append(tasks, on_thread_create(Invoke("on_thread_create", ctx.owner, ctx)))
    /\ UNCHANGED <<guilds, subscriptions, store_tags, tree_syncs>>

\* sync_all_tags replaces the store's tag table when it returns.
sync_run(user) ==
    /\ Len(tasks) < MaxInv
    /\ \E store_up \in BOOLEAN :
          LET after == sync(Invoke("sync", user, NoThread), guilds, store_up)
              wrote == after.store_calls # <<>> /\ after.store_calls[Len(after.store_calls)].ok
          IN /\ tasks' = Append(tasks, after)
             /\ store_tags' = IF wrote THEN after.store_calls[Len(after.store_calls)].arg
                              ELSE store_tags
    /\ UNCHANGED <<guilds, subscriptions, tree_syncs>>

\* await bot.tree.sync()
tree_sync(i) ==
    /\ tasks[i].pc = "tree_sync"
    /\ tree_syncs' = tree_syncs \cup {i}
    /\ tasks' = [tasks EXCEPT ![i].pc = "done"]
    /\ UNCHANGED <<guilds, subscriptions, store_tags>>

\* await interaction.response.send_message(...)
send_message(i) ==
    /\ tasks[i].pc = "send"
    /\ tasks' = [tasks EXCEPT ![i].response = response_of(tasks, i),
                              ![i].sent = @ + 1,
                              ![i].pc = "done"]
    /\ UNCHANGED <<guilds, subscriptions, store_tags, tree_syncs>>

\* The user picks once from a delivered menu; the menu's callback writes the store.
menu_callback(i, chosen) ==
    /\ tasks[i].pc = "done"
    /\ ~tasks[i].selected
    /\ tasks[i].response.kind = "menu"
    /\ chosen # {}
    /\ chosen \subseteq NamesOf(tasks[i].response.options)
    /\ subscriptions' =
          [subscriptions EXCEPT ![tasks[i].user] =
              IF tasks[i].response.subscribe THEN @ \cup chosen ELSE @ \ chosen]
    /\ tasks' = [tasks EXCEPT ![i].selected = TRUE]
    /\ UNCHANGED <<guilds, store_tags, tree_syncs>>

\* A moderator deletes the forum's first tag.
directory_change ==
    LET lookup == get_forum_tags(guilds, server_name, channel_name) IN
    /\ lookup.ok
    /\ lookup.value # <<>>
    /\ guilds' = Found(Tail(lookup.value))
    /\ UNCHANGED <<subscriptions, store_tags, tree_syncs, tasks>>

(* --------------------------- specifications ---------------------------- *)

InitialTags == <<Tag(NameOf(2)), Tag(NameOf(1))>>

\* Concurrent invocations, with the store and the directory changing under them.
Init ==
    /\ guilds = Found(InitialTags)
    /\ subscriptions = [u \in Users |-> IF u = "u1" THEN {NameOf(1)} ELSE {}]
    /\ store_tags = <<>>
    /\ tree_syncs = {}
    /\ tasks = <<>>

Next ==
    \/ \E user \in Users : list_tags_run(user)
    \/ \E user \in Users : subscribe_run(user)
    \/ \E user \in Users : unsubscribe_run(user)
    \/ \E user \in Users : sync_run(user)
    \/ \E ctx \in Threads : on_thread_create_run(ctx)
    \/ \E i \in 1..Len(tasks) : tree_sync(i)
    \/ \E i \in 1..Len(tasks) : send_message(i)
    \/ \E i \in 1..Len(tasks) : \E chosen \in SUBSET Names : menu_callback(i, chosen)
    \/ directory_change

Spec == Init /\ [][Next]_vars

\* One invocation on every directory and every subscription set of its user.
InputInit ==
    /\ guilds \in Directories
    /\ subscriptions \in {[u \in Users |-> IF u = "u1" THEN S ELSE {}] : S \in SUBSET Names}
    /\ store_tags = <<>>
    /\ tree_syncs = {}
    /\ tasks = <<>>

InputNext ==
    \/ tasks = <<>> /\ list_tags_run("u1")
    \/ tasks = <<>> /\ subscribe_run("u1")
    \/ tasks = <<>> /\ unsubscribe_run("u1")
    \/ tasks = <<>> /\ sync_run("u1")
    \/ tasks = <<>> /\ \E ctx \in Threads : on_thread_create_run(ctx)
    \/ \E i \in 1..Len(tasks) : tree_sync(i)
    \/ \E i \in 1..Len(tasks) : send_message(i)

InputSpec == InputInit /\ [][InputNext]_vars

(* ------------------------------ properties ----------------------------- *)

\* The channels of the configured name in the guilds of the configured name.
ConfiguredChannels(g) ==
    UNION {{c \in Range(gu.channels) : c.name = channel_name} :
              gu \in {x \in Range(g) : x.name = server_name}}

DirectoryFound(g) == ConfiguredChannels(g) # {}

\* The tag list of the configured forum channel, read off the directory.
ForumTagsOf(g) == (CHOOSE c \in ConfiguredChannels(g) : TRUE).available_tags

Pos(T, t) == CHOOSE k \in 1..Len(T) : T[k] = t

\* s holds elements of T, each once, in the order T holds them.
InOrderOf(s, T) ==
    /\ Range(s) \subseteq Range(T)
    /\ \A a, b \in 1..Len(s) : a < b => Pos(T, s[a]) < Pos(T, s[b])

Offering(i, cmd) ==
    /\ tasks[i].cmd = cmd
    /\ tasks[i].pc \in {"send", "done"}

\* C1: for the tag list T and the subscription set S an invocation read, the
\* list the subscribe handler offers and the list the unsubscribe handler
\* offers are disjoint and together hold exactly the tags of T, each once.
C1_OffersPartition ==
    \A i \in 1..Len(tasks) :
        Offering(i, "subscribe") \/ Offering(i, "unsubscribe") =>
            LET T == ForumTagsOf(tasks[i].seen_guilds)
                S == tasks[i].seen_subscriptions
                own == tasks[i].forum_tags
                other == IF tasks[i].cmd = "subscribe"
                         THEN unsubscribe_filter(T, S)
                         ELSE subscribe_filter(T, S)
            IN /\ Range(own) \cap Range(other) = {}
               /\ Range(own) \cup Range(other) = Range(T)
               /\ Len(own) + Len(other) = Len(T)

C1_Witness ==
    \E i \in 1..Len(tasks) :
        /\ Offering(i, "subscribe")
        /\ tasks[i].forum_tags # <<>>
        /\ Len(tasks[i].forum_tags) < Len(ForumTagsOf(tasks[i].seen_guilds))
        /\ ~(tasks[i].seen_subscriptions \subseteq NamesOf(ForumTagsOf(tasks[i].seen_guilds)))

\* C2: the subscribe handler's offer is the subsequence of the forum's tags
\* whose name is not in the user's subscription set, in the forum's order:
\* all of T when the user has no subscriptions, empty when the user is
\* subscribed to every name of T or T is empty.
C2_SubscribeOffer ==
    \A i \in 1..Len(tasks) :
        Offering(i, "subscribe") =>
            LET T == ForumTagsOf(tasks[i].seen_guilds)
                S == tasks[i].seen_subscriptions
                offer == tasks[i].forum_tags
            IN /\ Range(offer) = {t \in Range(T) : t.name \notin S}
               /\ Len(offer) = Cardinality(Range(offer))
               /\ InOrderOf(offer, T)
               /\ S = {} => offer = T
               /\ (NamesOf(T) \subseteq S \/ T = <<>>) => offer = <<>>

C2_Witness ==
    \E i \in 1..Len(tasks) :
        /\ Offering(i, "subscribe")
        /\ Len(tasks[i].forum_tags) >= 2
        /\ Len(tasks[i].forum_tags) < Len(ForumTagsOf(tasks[i].seen_guilds))

\* C3: the unsubscribe handler's offer is the subsequence of the forum's tags
\* whose name is in the user's subscription set, in the forum's order; a
\* subscribed name that names no forum tag is not offered, and the offer is
\* all of T when the user is subscribed to every name of T.
C3_UnsubscribeOffer ==
    \A i \in 1..Len(tasks) :
        Offering(i, "unsubscribe") =>
            LET T == ForumTagsOf(tasks[i].seen_guilds)
                S == tasks[i].seen_subscriptions
                offer == tasks[i].forum_tags
            IN /\ Range(offer) = {t \in Range(T) : t.name \in S}
               /\ Len(offer) = Cardinality(Range(offer))
               /\ InOrderOf(offer, T)
               /\ NamesOf(offer) \subseteq NamesOf(T)
               /\ NamesOf(T) \subseteq S => offer = T

C3_Witness ==
    \E i \in 1..Len(tasks) :
        /\ Offering(i, "unsubscribe")
        /\ Len(tasks[i].forum_tags) >= 2
        /\ ~(tasks[i].seen_subscriptions \subseteq NamesOf(ForumTagsOf(tasks[i].seen_guilds)))

\* The tags the handler of cmd is to offer, as a set.
OfferSet(cmd, T, S) == {t \in Range(T) : (t.name \in S) <=> (cmd = "unsubscribe")}

EmptyOfferText(cmd) ==
    IF cmd = "subscribe"
    THEN "You are currently subscribed to all tags!"
    ELSE "Not currently subscribed to any tags!"

EmptyMenu(r) == r.kind = "menu" /\ r.options = <<>>

\* C4: a subscribe or unsubscribe invocation never presents an empty menu;
\* once it has its offer it sends one response, the menu holding the offer
\* when the offer is not empty and otherwise the plain text of its command,
\* with no menu.
C4_NoEmptyMenu ==
    \A i \in 1..Len(tasks) :
        /\ ~EmptyMenu(tasks[i].response) /\ ~EmptyMenu(tasks[i].pending)
        /\ tasks[i].sent <= 1
        /\ tasks[i].cmd \in {"subscribe", "unsubscribe"} =>
              LET offer == OfferSet(tasks[i].cmd, ForumTagsOf(tasks[i].seen_guilds),
                                    tasks[i].seen_subscriptions)
              IN /\ tasks[i].pc = "send" => tasks[i].sent = 0 /\ tasks[i].response = NoResponse
                 /\ tasks[i].pc = "done" =>
                       /\ tasks[i].sent = 1
                       /\ offer # {} <=> tasks[i].response.kind = "menu"
                       /\ offer # {} =>
                             /\ tasks[i].response = Menu(tasks[i].cmd = "subscribe", tasks[i].forum_tags)
                             /\ Range(tasks[i].response.options) = offer
                       /\ offer = {} => tasks[i].response = Text(EmptyOfferText(tasks[i].cmd))

C4_Witness ==
    \E i \in 1..Len(tasks) :
        /\ tasks[i].cmd = "subscribe"
        /\ tasks[i].pc = "done"
        /\ ForumTagsOf(tasks[i].seen_guilds) # <<>>
        /\ tasks[i].response = Text("You are currently subscribed to all tags!")

TagCommands == {"list_tags", "subscribe", "unsubscribe"}

\* C5: when the directory holds no server or no channel of the configured
\* name, a list_tags, subscribe or unsubscribe invocation ends in an error
\* that the invoking user is told of in a failure message, and it does not go
\* on with a default or empty tag list.
C5_LookupFailureSurfaced ==
    \A i \in 1..Len(tasks) :
        /\ tasks[i].cmd \in TagCommands
        /\ ~DirectoryFound(tasks[i].seen_guilds)
        /\ tasks[i].pc \in {"done", "failed"}
        => /\ tasks[i].pc = "failed"
           /\ tasks[i].error # ""
           /\ tasks[i].sent = 1
           /\ tasks[i].response.kind = "text"

\* C6: when the store fails in fetch_subscriptions_by_user_id the error leaves
\* the handler: the store is asked at most once in an invocation, and neither
\* a menu nor a text message is sent for it.
C6_StoreFailurePropagates ==
    \A i \in 1..Len(tasks) :
        tasks[i].cmd \in {"subscribe", "unsubscribe"} =>
            /\ Len(tasks[i].store_calls) <= 1
            /\ \A k \in 1..Len(tasks[i].store_calls) :
                  /\ tasks[i].store_calls[k].op = "fetch_subscriptions_by_user_id"
                  /\ ~tasks[i].store_calls[k].ok =>
                        /\ tasks[i].pc = "failed"
                        /\ tasks[i].error = "StoreError"
                        /\ tasks[i].sent = 0
                        /\ tasks[i].pending = NoResponse
                        /\ tasks[i].response = NoResponse

C6_Witness ==
    \E i \in 1..Len(tasks) :
        /\ tasks[i].cmd = "subscribe"
        /\ DirectoryFound(tasks[i].seen_guilds)
        /\ ForumTagsOf(tasks[i].seen_guilds) # <<>>
        /\ tasks[i].store_calls = <<FetchCall(tasks[i].user, FALSE)>>
        /\ tasks[i].pc = "failed"

\* C7: sync hands the forum's whole tag list, in the directory's order, to
\* sync_all_tags, and asks for the command tree's refresh only once that call
\* has returned; when the call fails the refresh is never asked for.
C7_SyncThenRefresh ==
    /\ \A i \in tree_syncs :
          /\ i \in 1..Len(tasks)
          /\ tasks[i].cmd = "sync"
          /\ tasks[i].store_calls = <<SyncCall(ForumTagsOf(tasks[i].seen_guilds), TRUE)>>
    /\ \A i \in 1..Len(tasks) :
          tasks[i].cmd = "sync" =>
              /\ Len(tasks[i].store_calls) <= 1
              /\ tasks[i].pc \in {"tree_sync", "done"} =>
                    tasks[i].store_calls = <<SyncCall(ForumTagsOf(tasks[i].seen_guilds), TRUE)>>
              /\ tasks[i].pc = "done" <=> i \in tree_syncs
              /\ \A k \in 1..Len(tasks[i].store_calls) :
                    /\ tasks[i].store_calls[k].arg = ForumTagsOf(tasks[i].seen_guilds)
                    /\ ~tasks[i].store_calls[k].ok => tasks[i].pc = "failed" /\ i \notin tree_syncs

C7_Witness ==
    \E i \in tree_syncs :
        /\ tasks[i].cmd = "sync"
        /\ Len(tasks[i].store_calls[1].arg) >= 2
        /\ store_tags = tasks[i].store_calls[1].arg

\* C8: for a thread created in the configured forum channel, on_thread_create
\* ends having sent one message, 'The applied tags are: ' and the names of the
\* thread's applied tags.
C8_ThreadMessageSent ==
    \A i \in 1..Len(tasks) :
        /\ tasks[i].cmd = "on_thread_create"
        /\ tasks[i].ctx.parent = channel_name
        /\ tasks[i].pc \in {"done", "failed"}
        => /\ tasks[i].sent = 1
           /\ tasks[i].response =
                 Text("The applied tags are: " \o create_message_string(tasks[i].ctx.applied_tags))

\* A step of a list_tags, subscribe or unsubscribe handler: its run or its send.
TagCommandStep ==
    \/ /\ Len(tasks') = Len(tasks) + 1
       /\ tasks'[Len(tasks')].cmd \in TagCommands
    \/ \E i \in 1..Len(tasks) :
          /\ tasks[i].cmd \in TagCommands
          /\ tasks[i].pc = "send"
          /\ tasks'[i].pc = "done"

\* Two answered invocations of one command by one user that met the same
\* directory and the same subscriptions were given the same response.
SameResponse ==
    \A i, j \in 1..Len(tasks) :
        /\ tasks[i].cmd \in TagCommands
        /\ tasks[j].cmd = tasks[i].cmd
        /\ tasks[j].user = tasks[i].user
        /\ tasks[i].pc = "done" /\ tasks[j].pc = "done"
        /\ tasks[j].seen_guilds = tasks[i].seen_guilds
        /\ tasks[j].seen_subscriptions = tasks[i].seen_subscriptions
        => tasks[j].response = tasks[i].response

\* C9: the list_tags, subscribe and unsubscribe handlers leave the store and
\* the forum's tag list as they were, so the same command invoked twice by the
\* same user with no change of store or directory in between is answered the
\* same both times.
C9_HandlersReadOnly ==
    [][/\ TagCommandStep => UNCHANGED <<guilds, subscriptions, store_tags>>
       /\ SameResponse']_vars

C9_Witness ==
    \E i, j \in 1..Len(tasks) :
        /\ i < j
        /\ tasks[i].cmd = "subscribe" /\ tasks[j].cmd = "subscribe"
        /\ tasks[i].user = tasks[j].user
        /\ tasks[i].pc = "done" /\ tasks[j].pc = "done"
        /\ tasks[j].seen_guilds = tasks[i].seen_guilds
        /\ tasks[j].seen_subscriptions = tasks[i].seen_subscriptions
        /\ tasks[i].response.kind = "menu"
        /\ tasks[j].response = tasks[i].response

ExpectedResponse(cmd, T, S) ==
    IF cmd = "subscribe"
    THEN subscribe_response(subscribe_filter(T, S))
    ELSE unsubscribe_response(unsubscribe_filter(T, S))

\* C10: however the subscribe and unsubscribe invocations of different users
\* interleave, the response a user is sent is the one answering the forum's
\* tag list and that user's subscriptions as the invocation read them.
C10_ResponsesIsolated ==
    \A i \in 1..Len(tasks) :
        /\ tasks[i].cmd \in {"subscribe", "unsubscribe"}
        /\ tasks[i].pc = "done"
        => tasks[i].response =
              ExpectedResponse(tasks[i].cmd, ForumTagsOf(tasks[i].seen_guilds),
                               tasks[i].seen_subscriptions)

\* Two invocations of different users were both suspended in their sends, and
\* the later one was resumed and answered first, with another response than
\* the one the earlier one got afterwards.
C10_Witness ==
    \E i, j \in 1..Len(tasks) :
        /\ i < j
        /\ tasks[i].cmd \in {"subscribe", "unsubscribe"}
        /\ tasks[j].cmd \in {"subscribe", "unsubscribe"}
        /\ tasks[i].user # tasks[j].user
        /\ tasks[i].pc = "done" /\ tasks[j].pc = "done"
        /\ tasks[j].selected
        /\ subscriptions[tasks[j].user] # tasks[j].seen_subscriptions
        /\ tasks[i].seen_subscriptions # tasks[j].seen_subscriptions
        /\ tasks[i].response # tasks[j].response

====
